---- MODULE Spec2Model ----
\* Model of custom_mdb_agg.aggregator.CustomMongoAggregator: the operator
\* registry, the custom-operator detector, the field-path resolver, the local
\* expression evaluator (as the set of outcomes it can produce) and the
\* aggregate() orchestration with its checkpoint chain and cleanup.
EXTENDS Integers, Sequences, FiniteSets, TLC

\* ------------------------------------------------------------------
\* Expression trees (Python values of a pipeline stage / document).
\* A uniform record so that trees of different shapes compare safely.
\* ------------------------------------------------------------------
StrV(x) == [t |-> "str", s |-> x, n |-> 0, kv |-> <<>>, items |-> <<>>]
IntV(x) == [t |-> "int", s |-> "", n |-> x, kv |-> <<>>, items |-> <<>>]
DictV(kvs) == [t |-> "dict", s |-> "", n |-> 0, kv |-> kvs, items |-> <<>>]
ListV(xs) == [t |-> "list", s |-> "", n |-> 0, kv |-> <<>>, items |-> xs]

\* str.startswith('$'): TLC strings cannot be inspected, so the strings of the
\* model that do not start with '$' are listed; every other string does.
PlainStrings == {"", "a", "b", "x", "s", "val", "rating", "doubled", "_id",
                 "comment", "status", "missing", "double", "h1", "h2"}
StartsWithDollar(x) == x \notin PlainStrings

\* ------------------------------------------------------------------
\* contains_custom_operator (aggregator.py 51-74)
\* ------------------------------------------------------------------
RECURSIVE CheckExpr(_, _), CheckKV(_, _), CheckItems(_, _)
CheckExpr(e, ops) ==
  IF e.t = "dict" THEN CheckKV(e.kv, ops)
  ELSE IF e.t = "list" THEN CheckItems(e.items, ops)
  ELSE FALSE
CheckKV(kv, ops) ==
  IF kv = <<>> THEN FALSE
  ELSE LET key == Head(kv)[1]
           value == Head(kv)[2]
       IN IF key \in ops THEN TRUE
          ELSE IF value.t \in {"dict", "list"} /\ CheckExpr(value, ops) THEN TRUE
          ELSE CheckKV(Tail(kv), ops)
CheckItems(xs, ops) ==
  IF xs = <<>> THEN FALSE
  ELSE IF CheckExpr(Head(xs), ops) THEN TRUE
  ELSE CheckItems(Tail(xs), ops)

ContainsCustomOperator_TopLevel(stage, ops) ==
  stage.t = "dict" /\ \E j \in 1..Len(stage.kv) : stage.kv[j][1] \in ops
ContainsCustomOperator(stage, ops) == CheckExpr(stage, ops)

\* Every mapping key anywhere in a tree (reference notion used by the claims)
RECURSIVE KeysOf(_)
KeysOf(e) ==
  IF e.t = "dict"
    THEN {e.kv[j][1] : j \in 1..Len(e.kv)} \cup UNION {KeysOf(e.kv[j][2]) : j \in 1..Len(e.kv)}
  ELSE IF e.t = "list" THEN UNION {KeysOf(e.items[j]) : j \in 1..Len(e.items)}
  ELSE {}

HasRegisteredKey(e, ops) == KeysOf(e) \cap ops # {}

\* ------------------------------------------------------------------
\* Concrete stages used as pipeline inputs
\* ------------------------------------------------------------------
StageTree(s) ==
  CASE s = "M" -> DictV(<< <<"$match", DictV(<< <<"rating", DictV(<< <<"$gt", IntV(3)>> >>)>> >>)>> >>)
    [] s = "D" -> DictV(<< <<"$project", DictV(<< <<"val", IntV(1)>>,
                                             <<"doubled", DictV(<< <<"$double", StrV("$val")>> >>)>> >>)>> >>)
    [] s = "B" -> DictV(<< <<"$project", DictV(<< <<"x", DictV(<< <<"$substr", ListV(<<StrV("$s"), IntV(0)>>)>> >>)>> >>)>> >>)
    [] s = "G" -> DictV(<< <<"$group", DictV(<< <<"_id", DictV(<< <<"$double", StrV("$val")>> >>)>> >>)>> >>)

StageNames == {"M", "D", "B", "G"}

\* ------------------------------------------------------------------
\* Local evaluation: process_custom_stage / process_expr / evaluate_operator
\* (aggregator.py 163-251) as the set of outcomes one stage can end with:
\* "ok" or the exception it raises. Handlers and document contents are
\* external, so they contribute a nondeterministic choice.
\* ------------------------------------------------------------------
SubstrArityOk_AtLeast2(len) == len >= 2
SubstrArityOk(len) == len = 3

\* string[start:start+length]: a dict indexed by a slice raises KeyError
SubstrOut(v) ==
  IF v.t = "list"
    THEN IF SubstrArityOk(Len(v.items)) THEN {"ok", "TypeError", "KeyError"} ELSE {"ValueError"}
    ELSE {"ok", "ValueError", "TypeError", "KeyError"}

RECURSIVE ProcessExprOut(_, _), SeqOut(_, _), EvalOpOut(_, _, _)
\* Evaluate a sequence of expressions left to right; the first error wins.
SeqOut(es, ops) ==
  IF es = <<>> THEN {"ok"}
  ELSE LET h == ProcessExprOut(Head(es), ops)
       IN (h \ {"ok"}) \cup (IF "ok" \in h THEN SeqOut(Tail(es), ops) ELSE {})

ProcessExprOut(e, ops) ==
  IF e.t = "dict"
    THEN IF Len(e.kv) = 1
           THEN LET key == e.kv[1][1]
                    value == e.kv[1][2]
                IN IF key \in ops THEN {"ok", "HandlerError"}
                   ELSE IF StartsWithDollar(key) THEN EvalOpOut(key, value, ops)
                   ELSE ProcessExprOut(value, ops)
           ELSE SeqOut([j \in 1..Len(e.kv) |-> e.kv[j][2]], ops)
  ELSE IF e.t = "list" THEN SeqOut(e.items, ops)
  ELSE {"ok"}

\* ''.join(str(p) for p in parts) / len(string) on parts = process_expr(value):
\* TypeError unless the evaluated value is a str, list or dict. A "$path"
\* string resolves to whatever the document holds there (None when missing).
IterableOut(value, ops) ==
  CASE value.t = "list" -> {"ok"}
    [] value.t = "str" -> IF StartsWithDollar(value.s) THEN {"ok", "TypeError"} ELSE {"ok"}
    [] value.t = "dict" ->
         IF Len(value.kv) = 1 /\ (value.kv[1][1] \in ops \/ StartsWithDollar(value.kv[1][1]))
           THEN {"ok", "TypeError"} ELSE {"ok"}
    [] OTHER -> {"TypeError"}

\* operators evaluate_operator implements
BuiltinOps == {"$concat", "$strLenCP", "$toUpper", "$toLower", "$substr"}

\* each implemented operator first evaluates its argument; any other operator
\* raises NotImplementedError without evaluating it
EvalOpOut(op, value, ops) ==
  IF op \notin BuiltinOps THEN {"NotImplementedError"}
  ELSE
    LET a == ProcessExprOut(value, ops)
        rest == CASE op \in {"$toUpper", "$toLower"} -> {"ok"}
                  [] op \in {"$concat", "$strLenCP"} -> IterableOut(value, ops)
                  [] op = "$substr" -> SubstrOut(value)
    IN (a \ {"ok"}) \cup (IF "ok" \in a THEN rest ELSE {})

\* The fields of a $project/$addFields: 1 copies, 0 excludes, else evaluate.
FieldOut(v, ops) ==
  IF v.t = "int" /\ v.n \in {0, 1} THEN {"ok"} ELSE ProcessExprOut(v, ops)

RECURSIVE FieldsOut(_, _)
FieldsOut(kv, ops) ==
  IF kv = <<>> THEN {"ok"}
  ELSE LET h == FieldOut(Head(kv)[2], ops)
       IN (h \ {"ok"}) \cup (IF "ok" \in h THEN FieldsOut(Tail(kv), ops) ELSE {})

\* process_custom_stage over n input documents
LocalOutcomes(s, ops, n) ==
  LET tree == StageTree(s)
      operator == tree.kv[1][1]
      expr == tree.kv[1][2]
  IN IF operator \notin {"$project", "$addFields"} THEN {"NotImplementedError"}
     ELSE IF n = 0 THEN {"ok"}
     ELSE FieldsOut(expr.kv, ops)

\* ------------------------------------------------------------------
\* The database collaborator's behaviour on a native run (execute_sub_pipeline
\* submits stages + [{'$out': name}]). The server rejects a pipeline that uses
\* an operator it does not know or a $substr with the wrong arity; $match may
\* filter documents, the other stages keep the count.
\* ------------------------------------------------------------------
ServerRejects(stages) ==
  \E j \in 1..Len(stages) : stages[j] = "B" \/ "$double" \in KeysOf(StageTree(stages[j]))

NativeCounts(stages, n) ==
  IF \E j \in 1..Len(stages) : stages[j] = "M" THEN 0..n ELSE {n}

\* ------------------------------------------------------------------
\* aggregate() (aggregator.py 76-140) and execute_sub_pipeline (142-161)
\* ------------------------------------------------------------------
MaxLen == 2
MaxDocs == 2
RegNames == {"$double", "$project"}

SRC == 0
CkIds == 1..MaxLen
Pipelines == UNION {[1..l -> StageNames] : l \in 0..MaxLen}

Dead == [live |-> FALSE, n |-> 0, t |-> <<>>]
NoResult == [live |-> FALSE, n |-> -1, t |-> <<>>]

VARIABLES pipeline, custom_operators, pc, i, sub, cur, tracked, db, nextId,
          err, raised, results, log, k, warns, created, readN,
          dStage, dOps, dResult, dDone,
          rReg0, rReg, rName, rStep, rFailed, rAddError,
          fDoc, fPath, fResult, fDone,
          lDocs, lStage, lOut, lCk, lDone

aggVars == <<pipeline, custom_operators, pc, i, sub, cur, tracked, db, nextId,
             err, raised, results, log, k, warns, created, readN>>
detectVars == <<dStage, dOps, dResult, dDone>>
regVars == <<rReg0, rReg, rName, rStep, rFailed, rAddError>>
resolveVars == <<fDoc, fPath, fResult, fDone>>
localVars == <<lDocs, lStage, lOut, lCk, lDone>>
vars == <<aggVars, detectVars, regVars, resolveVars, localVars>>

Custom(s) == ContainsCustomOperator(StageTree(s), custom_operators)

\* the aggregate variables, at rest
AggAtRest ==
  /\ pipeline = <<>> /\ custom_operators = {} /\ pc = "done" /\ i = 1 /\ sub = <<>>
  /\ cur = SRC /\ tracked = <<>> /\ db = [c \in {SRC} \cup CkIds |-> Dead] /\ nextId = 1
  /\ err = "none" /\ raised = <<>> /\ results = NoResult /\ log = <<>> /\ k = 1
  /\ warns = 0 /\ created = <<>> /\ readN = [at |-> 0, n |-> -1]

NeedFlush_Always(sb) == TRUE
\* if sub_pipeline:
NeedFlush(sb) == sb # <<>>
Accumulate_Replace(sb, s) == <<s>>
\* sub_pipeline.append(stage)
Accumulate(sb, s) == Append(sb, s)
FindSource_Source(c) == SRC
\* the collection a find() reads (current_collection)
FindSource(c) == c
InsertTarget_Current(c, fresh) == c
\* the collection insert_many writes (temp_collection)
InsertTarget(c, fresh) == fresh
DropOutcome_Raise(e, failed) == IF failed THEN "DropError" ELSE e
\* cleanup: a failing drop is only logged (except Exception: logger.warning)
DropOutcome(e, failed) == e

NullV == [t |-> "null", s |-> "", n |-> 0, kv |-> <<>>, items |-> <<>>]

\* the variables of the other specifications, at rest
DetectAtRest == dStage = NullV /\ dOps = {} /\ dResult = FALSE /\ dDone = FALSE
RegAtRest == rReg0 = <<>> /\ rReg = <<>> /\ rName = "" /\ rStep = 0 /\ rFailed = FALSE /\ rAddError = FALSE
ResolveAtRest == fDoc = NullV /\ fPath = <<>> /\ fResult = NullV /\ fDone = FALSE
LocalAtRest == lDocs = <<>> /\ lStage = <<>> /\ lOut = <<>> /\ lCk = <<>> /\ lDone = FALSE

Init ==
  /\ DetectAtRest /\ RegAtRest /\ ResolveAtRest /\ LocalAtRest
  /\ pipeline \in Pipelines
  /\ custom_operators \in SUBSET RegNames
  /\ pc = "scan"
  /\ i = 1
  /\ sub = <<>>
  /\ cur = SRC
  /\ tracked = <<>>
  /\ \E n0 \in 0..MaxDocs :
       db = [c \in {SRC} \cup CkIds |-> IF c = SRC THEN [live |-> TRUE, n |-> n0, t |-> <<>>] ELSE Dead]
  /\ nextId = 1
  /\ err = "none"
  /\ raised = <<>>
  /\ results = NoResult
  /\ log = <<>>
  /\ k = 1
  /\ warns = 0
  /\ created = <<>>
  /\ readN = [at |-> 0, n |-> -1]

Fail(e) ==
  /\ err' = e
  /\ raised' = Append(raised, e)
  /\ pc' = "cleanup"
  /\ k' = 1

\* for stage in pipeline: native stage -> sub_pipeline.append(stage)
ScanNative ==
  /\ pc = "scan"
  /\ i <= Len(pipeline)
  /\ ~Custom(pipeline[i])
  /\ sub' = Accumulate(sub, pipeline[i])
  /\ i' = i + 1
  /\ UNCHANGED <<pipeline, custom_operators, pc, cur, tracked, db, nextId,
                 err, raised, results, log, k, warns, created, readN>>

\* execute_sub_pipeline(current_collection, sub_pipeline), then (on success)
\* temp_collections.append; nextPc is where the loop continues; clear says
\* whether the caller resets sub_pipeline.
ExecNative(nextPc, clear) ==
  LET name == nextId
  IN /\ nextId' = nextId + 1
     /\ \/ /\ ~ServerRejects(sub)
           /\ \E c \in NativeCounts(sub, db[cur].n) :
                db' = [db EXCEPT ![name] = [live |-> TRUE, n |-> c,
                                            t |-> Append(db[cur].t, [k |-> "N", st |-> sub])]]
           /\ cur' = name
           /\ tracked' = Append(tracked, name)
           /\ created' = Append(created, name)
           /\ log' = Append(log, [op |-> "native", in |-> cur, out |-> name, st |-> sub, n |-> db[cur].n])
           /\ sub' = IF clear THEN <<>> ELSE sub
           /\ pc' = nextPc
           /\ UNCHANGED <<err, raised, k>>
        \* the server fails the aggregation; $out leaves no target behind
        \/ /\ Fail("NativeRunError")
           /\ UNCHANGED <<db, cur, tracked, created, log, sub>>
        \* the server completed $out but the client call still raised
        \* (e.g. connection lost before the reply): target exists, untracked
        \/ /\ ~ServerRejects(sub)
           /\ \E c \in NativeCounts(sub, db[cur].n) :
                db' = [db EXCEPT ![name] = [live |-> TRUE, n |-> c,
                                            t |-> Append(db[cur].t, [k |-> "N", st |-> sub])]]
           /\ created' = Append(created, name)
           /\ Fail("NativeRunError")
           /\ UNCHANGED <<cur, tracked, log, sub>>
  /\ UNCHANGED <<pipeline, custom_operators, i, results, warns, readN>>

\* custom stage reached with a non-empty sub_pipeline: flush it first
FlushBeforeCustom ==
  /\ pc = "scan"
  /\ i <= Len(pipeline)
  /\ Custom(pipeline[i])
  /\ NeedFlush(sub)
  /\ ExecNative("custom", TRUE)

\* documents = list(current_collection.find()); process_custom_stage;
\* insert_many into a fresh temp collection if documents; append it.
RunCustom ==
  /\ \/ pc = "custom"
     \/ /\ pc = "scan"
        /\ i <= Len(pipeline)
        /\ Custom(pipeline[i])
        /\ ~NeedFlush(sub)
  /\ LET s == pipeline[i]
         src == FindSource(cur)
         n == db[src].n
         name == nextId
         tgt == InsertTarget(cur, name)
     IN \/ /\ Fail("ReadError")
           /\ readN' = [at |-> i, n |-> -1]
           /\ UNCHANGED <<db, cur, tracked, created, log, i, nextId>>
        \/ \E o \in LocalOutcomes(s, custom_operators, n) \ {"ok"} :
              /\ Fail(o)
              /\ readN' = [at |-> i, n |-> n]
              /\ UNCHANGED <<db, cur, tracked, created, log, i, nextId>>
        \/ /\ "ok" \in LocalOutcomes(s, custom_operators, n)
           /\ nextId' = nextId + 1
           /\ \/ /\ n = 0
                 /\ UNCHANGED <<db, created>>
              \/ /\ n > 0
                 /\ db' = [db EXCEPT ![tgt] = [live |-> TRUE, n |-> n,
                                               t |-> Append(db[src].t, [k |-> "L", st |-> <<s>>])]]
                 /\ created' = Append(created, tgt)
           /\ cur' = name
           /\ tracked' = Append(tracked, name)
           /\ log' = Append(log, [op |-> "custom", in |-> src, out |-> name, st |-> <<s>>, n |-> n])
           /\ readN' = [at |-> i, n |-> n]
           /\ i' = i + 1
           /\ pc' = "scan"
           /\ UNCHANGED <<err, raised, k>>
        \* insert_many raises (e.g. a network error, possibly after the server
        \* wrote all documents) after writing c of the n documents
        \/ /\ "ok" \in LocalOutcomes(s, custom_operators, n)
           /\ n > 0
           /\ nextId' = nextId + 1
           /\ readN' = [at |-> i, n |-> n]
           /\ \E c \in 0..n :
                IF c = 0 THEN UNCHANGED <<db, created>>
                ELSE /\ db' = [db EXCEPT ![tgt] = [live |-> TRUE, n |-> c,
                                                   t |-> Append(db[src].t, [k |-> "L", st |-> <<s>>])]]
                     /\ created' = Append(created, tgt)
           /\ Fail("InsertError")
           /\ UNCHANGED <<cur, tracked, log, i>>
  /\ UNCHANGED <<pipeline, custom_operators, sub, results, warns>>

\* pipeline exhausted with a non-empty sub_pipeline
FinalFlush ==
  /\ pc = "scan"
  /\ i > Len(pipeline)
  /\ NeedFlush(sub)
  /\ ExecNative("read", FALSE)

\* results = list(current_collection.find())
ReadResults ==
  /\ \/ pc = "read"
     \/ /\ pc = "scan"
        /\ i > Len(pipeline)
        /\ ~NeedFlush(sub)
  /\ LET src == FindSource(cur)
     IN \/ /\ results' = db[src]
           /\ log' = Append(log, [op |-> "result", in |-> src, out |-> -1, st |-> <<>>, n |-> db[src].n])
           /\ pc' = "cleanup"
           /\ k' = 1
           /\ UNCHANGED <<err, raised>>
        \/ /\ Fail("ReadError")
           /\ UNCHANGED <<results, log>>
  /\ UNCHANGED <<pipeline, custom_operators, i, sub, cur, tracked, db, nextId, warns, created, readN>>

\* finally: for temp_col in temp_collections: if temp_col != self.collection: drop
CleanupStep ==
  /\ pc = "cleanup"
  /\ k <= Len(tracked)
  /\ LET c == tracked[k]
     IN IF c # SRC
          THEN \/ /\ db' = [db EXCEPT ![c] = Dead]
                  /\ err' = DropOutcome(err, FALSE)
                  /\ UNCHANGED warns
               \* drop raises, either before the server dropped the collection or
               \* after it did (a write concern error, a lost reply)
               \/ /\ warns' = warns + 1
                  /\ err' = DropOutcome(err, TRUE)
                  /\ \/ UNCHANGED db
                     \/ db' = [db EXCEPT ![c] = Dead]
          ELSE UNCHANGED <<db, warns, err>>
  /\ k' = k + 1
  /\ UNCHANGED <<pipeline, custom_operators, pc, i, sub, cur, tracked, nextId,
                 raised, results, log, created, readN>>

\* the finally block is over: return results / re-raise
Finish ==
  /\ pc = "cleanup"
  /\ k > Len(tracked)
  /\ pc' = "done"
  /\ UNCHANGED <<pipeline, custom_operators, i, sub, cur, tracked, db, nextId,
                 err, raised, results, log, k, warns, created, readN>>

Next ==
  /\ \/ ScanNative
     \/ FlushBeforeCustom
     \/ RunCustom
     \/ FinalFlush
     \/ ReadResults
     \/ CleanupStep
     \/ Finish
  /\ UNCHANGED <<detectVars, regVars, resolveVars, localVars>>

Spec == Init /\ [][Next]_vars


\* ------------------------------------------------------------------
\* Properties of aggregate()
\* ------------------------------------------------------------------
Range(f) == {f[j] : j \in DOMAIN f}
LiveCheckpoints == {c \in CkIds : db[c].live}

\* mode switches: one per custom stage, one per maximal run of native stages
ModeSwitches(p) ==
  Cardinality({j \in 1..Len(p) : Custom(p[j])})
  + Cardinality({j \in 1..Len(p) : ~Custom(p[j]) /\ (j = 1 \/ Custom(p[j - 1]))})

RECURSIVE FlatStages(_)
FlatStages(l) == IF l = <<>> THEN <<>> ELSE Head(l).st \o FlatStages(Tail(l))

\* the content term produced by the logged steps, in order
StepsTerm ==
  LET steps == SelectSeq(log, LAMBDA e : e.op # "result")
  IN [j \in 1..Len(steps) |-> [k |-> IF steps[j].op = "native" THEN "N" ELSE "L", st |-> steps[j].st]]

NativeRuns == {j \in 1..Len(log) : log[j].op = "native"}

\* C1: after aggregate finishes (return or raise) every checkpoint created in
\* the call has been dropped, and every created checkpoint was tracked for
\* cleanup, in creation order.
C1_Cleanup ==
  pc = "done" =>
    /\ LiveCheckpoints = {}
    /\ Range(created) \subseteq Range(tracked)
    /\ SelectSeq(tracked, LAMBDA c : c \in Range(created)) = created

\* C2: the source collection is never written to (no $out or insert_many
\* target is the source) and never dropped; its contents never change.
C2_SourceUntouched ==
  /\ db[SRC].live
  /\ db[SRC].t = <<>>
  /\ SRC \notin Range(created)
  /\ SRC \notin Range(tracked)
  /\ \A j \in 1..Len(log) : log[j].op # "result" => log[j].out # SRC

C2_Witness ==
  pc = "done" /\ err = "none" /\ Len(log) >= 3
  /\ \E j \in 1..Len(log) : log[j].op = "custom" /\ log[j].in = SRC

\* C3: aggregate either returns the complete result (no failure occurred) or
\* raises exactly one error, the first failure; drop failures in cleanup are
\* only warnings and change neither outcome.
C3_Outcome ==
  pc = "done" =>
    IF raised = <<>>
      THEN /\ err = "none"
           /\ results # NoResult
           /\ results.n >= 0
           /\ results.n > 0 => results.t = StepsTerm
      ELSE /\ Len(raised) = 1
           /\ err = raised[1]
           /\ results = NoResult

C3_Witness ==
  pc = "done" /\ warns > 0 /\ err = "HandlerError"

\* C4: on success the number of checkpoints equals the number of mode switches
C4_ModeSwitches ==
  (pc = "done" /\ err = "none") => Len(tracked) = ModeSwitches(pipeline)

C4_Witness ==
  pc = "done" /\ err = "none" /\ Len(pipeline) = MaxLen /\ ModeSwitches(pipeline) = MaxLen
  /\ \E j \in 1..Len(pipeline) : ~Custom(pipeline[j])

NoCustomStage == \A j \in 1..Len(pipeline) : ~HasRegisteredKey(StageTree(pipeline[j]), custom_operators)

\* C5 (as stated): a pipeline with no custom-operator stage is submitted in
\* exactly one native run, whose result is the result; no other checkpoint.
C5_AsStated ==
  (pc = "done" /\ err = "none" /\ NoCustomStage) =>
    /\ Cardinality(NativeRuns) = 1
    /\ results.t = << [k |-> "N", st |-> pipeline] >>
    /\ Len(tracked) = 1

\* C5 (amended): a non-empty pipeline with no custom-operator stage is one
\* native run of the whole pipeline whose result is the result, with no other
\* checkpoint; the empty pipeline makes no native run and no checkpoint and
\* returns the source collection's documents.
C5_SingleNativeRun ==
  (pc = "done" /\ err = "none" /\ NoCustomStage) =>
    IF Len(pipeline) > 0
      THEN /\ Cardinality(NativeRuns) = 1
           /\ results.t = << [k |-> "N", st |-> pipeline] >>
           /\ Len(tracked) = 1
      ELSE /\ NativeRuns = {}
           /\ results.t = <<>>
           /\ tracked = <<>>

C5_Witness ==
  pc = "done" /\ err = "none" /\ NoCustomStage /\ Len(pipeline) = MaxLen

\* C6: steps run in pipeline order and each reads the collection the previous
\* step produced (first the source); the result is read from the last
\* checkpoint, or from the source for the empty pipeline.
C6_CheckpointChain ==
  /\ Len(log) > 0 => log[1].in = SRC
  /\ \A j \in 1..(Len(log) - 1) : log[j + 1].in = log[j].out
  /\ LET fs == FlatStages(log) IN fs = SubSeq(pipeline, 1, Len(fs))
  /\ (pc = "done" /\ err = "none") =>
        /\ FlatStages(log) = pipeline
        /\ log[Len(log)].op = "result"
        /\ log[Len(log)].in = IF tracked = <<>> THEN SRC ELSE tracked[Len(tracked)]

C6_Witness ==
  pc = "done" /\ err = "none" /\ Len(log) = 3
  /\ log[1].op = "native" /\ log[2].op = "custom"

BStaged == \E j \in 1..Len(pipeline) : pipeline[j] = "B"
BRanOnEmpty ==
  \E j \in 1..Len(log) : log[j].op = "custom" /\ log[j].st = <<"B">> /\ log[j].n = 0
BRead ==
  readN.at \in 1..Len(pipeline) /\ pipeline[readN.at] = "B" /\ readN.n > 0
MaxNodes == 4
TreeKeys == {"$double", "a"}
TreeLeaves == {IntV(1), StrV("$double")}
DetectRegNames == {"$double", "$prompt"}

\* sequences over S of length m with pairwise distinct elements
DistinctSeqs(S, m) == {f \in [1..m -> S] : \A x, y \in 1..m : x # y => f[x] # f[y]}

RECURSIVE Trees(_), Forests(_)
\* trees with exactly m nodes
Trees(m) ==
  IF m = 1 THEN TreeLeaves \cup {DictV(<<>>), ListV(<<>>)}
  ELSE {ListV(f) : f \in Forests(m - 1)}
       \cup UNION {{DictV([j \in 1..Len(f) |-> <<ks[j], f[j]>>]) : ks \in DistinctSeqs(TreeKeys, Len(f))}
                   : f \in Forests(m - 1)}
\* sequences of trees with m nodes in total
Forests(m) ==
  IF m = 0 THEN {<<>>}
  ELSE UNION {{<<t>> \o f : t \in Trees(x), f \in Forests(m - x)} : x \in 1..m}

StageTrees == UNION {Trees(m) : m \in 1..MaxNodes}

DetectInit ==
  /\ dStage \in StageTrees
  /\ dOps \in SUBSET DetectRegNames
  /\ dResult = FALSE
  /\ dDone = FALSE
  /\ AggAtRest /\ RegAtRest /\ ResolveAtRest /\ LocalAtRest

\* result = aggregator.contains_custom_operator(stage)
Detect ==
  /\ ~dDone
  /\ dResult' = ContainsCustomOperator(dStage, dOps)
  /\ dDone' = TRUE
  /\ UNCHANGED <<dStage, dOps>>
  /\ UNCHANGED <<aggVars, regVars, resolveVars, localVars>>

DetectNext == Detect
DetectSpec == DetectInit /\ [][DetectNext]_vars

\* C8: contains_custom_operator(stage) is true iff some registered name is a
\* mapping key anywhere in the stage tree (nested mappings, list elements,
\* built-in operator arguments); it leaves stage and registry unchanged.
C8_Detector ==
  dDone => (dResult <=> HasRegisteredKey(dStage, dOps))

C8_Witness ==
  /\ dDone /\ dResult
  /\ dStage.t = "dict"
  /\ \A j \in 1..Len(dStage.kv) : dStage.kv[j][1] \notin dOps
  /\ \E j \in 1..Len(dStage.kv) : dStage.kv[j][2].t = "list"

\* ------------------------------------------------------------------
\* Registry specification: remove_custom_operator (aggregator.py 41-49)
\* ------------------------------------------------------------------
RegOpNames == {"$double", "$prompt", "$upper"}
Handlers == {"h1", "h2"}
RemoveNames == RegOpNames \cup {"x"}
\* names passed to add_custom_operator: "x" does not start with '$'
AddNames == RegOpNames \cup {"x"}

RemoveCustomOperator_NoGuard(reg, name) ==
  IF name \in DOMAIN reg
    THEN [reg |-> [x \in DOMAIN reg \ {name} |-> reg[x]], failed |-> FALSE]
    ELSE [reg |-> reg, failed |-> TRUE]
\* if name in self.custom_operators: del self.custom_operators[name]
\* (failed: whether the call raises)
RemoveCustomOperator(reg, name) ==
  IF name \in DOMAIN reg
    THEN [reg |-> [x \in DOMAIN reg \ {name} |-> reg[x]], failed |-> FALSE]
    ELSE [reg |-> reg, failed |-> FALSE]

EmptyRegistry == [x \in {} |-> "h1"]

\* self.custom_operators = {} after construction; the name to remove is the
\* input of the two unregister calls
RegInit ==
  /\ rReg0 = EmptyRegistry
  /\ rReg = EmptyRegistry
  /\ rName \in RemoveNames
  /\ rStep = 0
  /\ rFailed = FALSE
  /\ rAddError = FALSE
  /\ AggAtRest /\ DetectAtRest /\ ResolveAtRest /\ LocalAtRest

\* add_custom_operator(name, func): ValueError unless name starts with '$',
\* else self.custom_operators[name] = func (last registration wins).
\* Registrations happen before the two unregister calls.
AddCustomOperator ==
  /\ rStep = 0
  /\ \E name \in AddNames, h \in Handlers :
       IF StartsWithDollar(name)
         THEN /\ rReg' = [x \in DOMAIN rReg \cup {name} |-> IF x = name THEN h ELSE rReg[x]]
              /\ rAddError' = FALSE
         ELSE /\ rAddError' = TRUE
              /\ UNCHANGED rReg
  /\ rReg0' = rReg'
  /\ UNCHANGED <<rName, rStep, rFailed>>
  /\ UNCHANGED <<aggVars, detectVars, resolveVars, localVars>>

\* unregister(name), called twice in a row
Unregister ==
  /\ rStep < 2
  /\ ~rFailed
  /\ LET r == RemoveCustomOperator(rReg, rName)
     IN /\ rReg' = r.reg
        /\ rFailed' = r.failed
  /\ rStep' = rStep + 1
  /\ UNCHANGED <<rReg0, rName, rAddError>>
  /\ UNCHANGED <<aggVars, detectVars, resolveVars, localVars>>

RegNext == AddCustomOperator \/ Unregister
RegSpec == RegInit /\ [][RegNext]_vars

\* C9: unregister(name) twice never fails; afterwards name is absent and every
\* other entry is unchanged.
C9_RemoveTwice ==
  rStep = 2 =>
    /\ ~rFailed
    /\ rName \notin DOMAIN rReg
    /\ DOMAIN rReg = DOMAIN rReg0 \ {rName}
    /\ \A x \in DOMAIN rReg : rReg[x] = rReg0[x]

C9_Witness ==
  rStep = 2 /\ rName \in DOMAIN rReg0 /\ Cardinality(DOMAIN rReg0) >= 2

\* ------------------------------------------------------------------
\* Resolver specification: get_field_value (aggregator.py 253-271)
\* Paths are character sequences; keys of documents are character sequences.
\* ------------------------------------------------------------------
MaxDepth == 2
MaxPathLen == 3
PathChars == {"a", "b", "."}
DocKeys == {<<"a">>, <<"b">>}
DocLeaf == StrV("a")

RECURSIVE Values(_)
\* values of nesting depth at most d: a leaf, or a document over DocKeys
Values(d) ==
  IF d = 0 THEN {DocLeaf}
  ELSE {DocLeaf} \cup {DictV(<<>>)}
       \cup {DictV(<< <<kk, v>> >>) : kk \in DocKeys, v \in Values(d - 1)}
       \cup {DictV(<< <<<<"a">>, v>>, <<<<"b">>, w>> >>) : v, w \in Values(d - 1)}

Documents == {v \in Values(MaxDepth) : v.t = "dict"}
Paths == UNION {[1..m -> PathChars] : m \in 1..MaxPathLen}

\* field_path.split('.')
RECURSIVE SplitAcc(_, _)
SplitAcc(cs, segs) ==
  IF cs = <<>> THEN segs
  ELSE IF Head(cs) = "."
    THEN SplitAcc(Tail(cs), Append(segs, <<>>))
    ELSE SplitAcc(Tail(cs), [segs EXCEPT ![Len(segs)] = Append(@, Head(cs))])
Split(cs) == SplitAcc(cs, << <<>> >>)

KeySet(v) == {v.kv[j][1] : j \in 1..Len(v.kv)}
Lookup(v, f) == LET j == CHOOSE x \in 1..Len(v.kv) : v.kv[x][1] = f IN v.kv[j][2]

Missing_Partial(v) == v
\* else: return None
Missing(v) == NullV

\* value = doc; for f in fields: if isinstance(value, dict) and f in value:
\* value = value[f] else return None; return value
RECURSIVE Walk(_, _)
Walk(value, fields) ==
  IF fields = <<>> THEN value
  ELSE IF value.t = "dict" /\ Head(fields) \in KeySet(value)
    THEN Walk(Lookup(value, Head(fields)), Tail(fields))
    ELSE Missing(value)

GetFieldValue(doc, path) == Walk(doc, Split(path))

ResolveInit ==
  /\ fDoc \in Documents
  /\ fPath \in Paths
  /\ fResult = NullV
  /\ fDone = FALSE
  /\ AggAtRest /\ DetectAtRest /\ RegAtRest /\ LocalAtRest

\* result = aggregator.get_field_value(doc, path)
Resolve ==
  /\ ~fDone
  /\ fResult' = GetFieldValue(fDoc, fPath)
  /\ fDone' = TRUE
  /\ UNCHANGED <<fDoc, fPath>>
  /\ UNCHANGED <<aggVars, detectVars, regVars, localVars>>

ResolveNext == Resolve
ResolveSpec == ResolveInit /\ [][ResolveNext]_vars

\* the value reached from v along segments segs, when every segment is present
\* in a document along the way
RECURSIVE PathPresent(_, _)
PathPresent(v, segs) ==
  segs = <<>> \/ (v.t = "dict" /\ Head(segs) \in KeySet(v) /\ PathPresent(Lookup(v, Head(segs)), Tail(segs)))

\* C10: get_field_value returns the nested value when every segment of the
\* dotted path is present, and None (never raising) when a segment is missing
\* or an intermediate value is not a document.
C10_Resolve ==
  fDone =>
    LET segs == Split(fPath)
        \* the value at the path, taken one segment at a time
        at[x \in 0..Len(segs)] == IF x = 0 THEN fDoc ELSE Lookup(at[x - 1], segs[x])
    IN IF PathPresent(fDoc, segs) THEN fResult = at[Len(segs)] ELSE fResult = NullV

C10_Witness ==
  fDone /\ fResult = NullV /\ Len(Split(fPath)) >= 2
  /\ \E kk \in DocKeys : kk \in KeySet(fDoc) /\ Lookup(fDoc, kk).t # "dict" /\ Split(fPath)[1] = kk

\* ------------------------------------------------------------------
\* Local stage specification: process_custom_stage on concrete documents
\* (aggregator.py 163-187) followed by the checkpoint write of aggregate
\* (108-115). Document keys are character sequences, as in the resolver.
\* ------------------------------------------------------------------
MaxInDocs == 2
KID == <<"_", "i", "d">>
KA == <<"a">>
KB == <<"b">>
\* the stage's field expressions: inclusion, exclusion, a field reference
FieldExprs == {IntV(1), IntV(0), StrV("$a")}

\* an ObjectId that insert_many assigns to a document without _id
ObjectIdV(x) == [t |-> "oid", s |-> "", n |-> x, kv |-> <<>>, items |-> <<>>]

\* a source document {_id: id[, a: 5][, b: 7]}
SrcDoc(id, hasA, hasB) ==
  DictV(<< <<KID, IntV(id)>> >>
        \o (IF hasA THEN << <<KA, IntV(5)>> >> ELSE <<>>)
        \o (IF hasB THEN << <<KB, IntV(7)>> >> ELSE <<>>))

\* source collections: documents with distinct _id values
InputDocs ==
  UNION {{[j \in 1..m |-> SrcDoc(ids[j], as[j], bs[j])] :
            ids \in DistinctSeqs(1..MaxInDocs, m), as \in [1..m -> BOOLEAN], bs \in [1..m -> BOOLEAN]}
         : m \in 0..MaxInDocs}

\* {$project: {...}} bodies: distinct field names mapped to field expressions
LocalStages ==
  UNION {{[j \in 1..m |-> <<ks[j], vs[j]>>] : ks \in DistinctSeqs({KA, KB}, m), vs \in [1..m -> FieldExprs]}
         : m \in 1..2}

\* "$a"[1:] as a field path
RefChars(x) == CASE x = "$a" -> <<"a">> [] x = "$b" -> <<"b">>

\* process_expr on a field expression: "$path" resolves, other literals as is
ProcessExprValue(v, doc) ==
  IF v.t = "str" /\ v.s \in {"$a", "$b"} THEN GetFieldValue(doc, RefChars(v.s)) ELSE v

\* doc.get(key)
DocGet(doc, key) == IF key \in KeySet(doc) THEN Lookup(doc, key) ELSE NullV

\* new_doc = {}; for key, value in expr.items(): 1 -> doc.get(key);
\* 0 -> skip; else process_expr(value, doc)
RECURSIVE NewDocAcc(_, _, _)
NewDocAcc(doc, kv, acc) ==
  IF kv = <<>> THEN DictV(acc)
  ELSE LET key == Head(kv)[1]
           value == Head(kv)[2]
       IN IF value.t = "int" /\ value.n = 1 THEN NewDocAcc(doc, Tail(kv), Append(acc, <<key, DocGet(doc, key)>>))
          ELSE IF value.t = "int" /\ value.n = 0 THEN NewDocAcc(doc, Tail(kv), acc)
          ELSE NewDocAcc(doc, Tail(kv), Append(acc, <<key, ProcessExprValue(value, doc)>>))
NewDoc(doc, kv) == NewDocAcc(doc, kv, <<>>)

\* for doc in documents: ... processed_docs.append(new_doc)
RECURSIVE ProcessDocs_DropEmpty(_, _)
ProcessDocs_DropEmpty(docs, kv) ==
  IF docs = <<>> THEN <<>>
  ELSE IF NewDoc(Head(docs), kv) = DictV(<<>>) THEN ProcessDocs_DropEmpty(Tail(docs), kv)
  ELSE <<NewDoc(Head(docs), kv)>> \o ProcessDocs_DropEmpty(Tail(docs), kv)
RECURSIVE ProcessDocs(_, _)
ProcessDocs(docs, kv) ==
  IF docs = <<>> THEN <<>> ELSE <<NewDoc(Head(docs), kv)>> \o ProcessDocs(Tail(docs), kv)

\* if documents: temp_collection.insert_many(documents); the driver gives
\* every document without _id a fresh ObjectId; find() then returns them in
\* insertion order (an empty list creates no collection and reads back []).
NonIdFields(d) == SelectSeq(d.kv, LAMBDA p : p[1] # KID)

\* (the driver encodes _id as the first field, so find() returns it first)
InsertMany(docs) ==
  [j \in 1..Len(docs) |->
     DictV(<< <<KID, IF KID \in KeySet(docs[j]) THEN Lookup(docs[j], KID) ELSE ObjectIdV(j)>> >>
           \o NonIdFields(docs[j]))]

LocalInit ==
  /\ lDocs \in InputDocs
  /\ lStage \in LocalStages
  /\ lOut = <<>>
  /\ lCk = <<>>
  /\ lDone = FALSE
  /\ AggAtRest /\ DetectAtRest /\ RegAtRest /\ ResolveAtRest

\* documents = process_custom_stage(list(find()), {$project: lStage});
\* insert_many into the new checkpoint
LocalStage ==
  /\ ~lDone
  /\ lOut' = ProcessDocs(lDocs, lStage)
  /\ lCk' = InsertMany(ProcessDocs(lDocs, lStage))
  /\ lDone' = TRUE
  /\ UNCHANGED <<lDocs, lStage>>
  /\ UNCHANGED <<aggVars, detectVars, regVars, resolveVars>>

LocalNext == LocalStage
LocalSpec == LocalInit /\ [][LocalNext]_vars

\* C11: in a locally run $project/$addFields, a field whose expression is the
\* inclusion marker 1 is copied verbatim from the source document, and is
\* omitted from the output document when the source document lacks it.
C11_InclusionOmitsAbsent ==
  lDone =>
    \A j \in 1..Len(lDocs) : \A x \in 1..Len(lStage) :
      lStage[x][2] = IntV(1) =>
        IF lStage[x][1] \in KeySet(lDocs[j])
          THEN lStage[x][1] \in KeySet(lOut[j]) /\ Lookup(lOut[j], lStage[x][1]) = Lookup(lDocs[j], lStage[x][1])
          ELSE lStage[x][1] \notin KeySet(lOut[j])

\* C12: every document a locally run $project/$addFields writes to its
\* checkpoint keeps the _id of its input document, even though the stage does
\* not list _id.
C12_KeepsId ==
  lDone =>
    \A j \in 1..Len(lDocs) :
      /\ j <= Len(lCk)
      /\ KID \in KeySet(lCk[j])
      /\ Lookup(lCk[j], KID) = Lookup(lDocs[j], KID)

\* C13: a locally run custom stage yields exactly one output document per
\* input document, in input order, and its checkpoint then holds exactly that
\* many documents (none for an empty input), in the same order, each holding
\* its output document's fields besides the _id the insert supplies.
C13_OnePerInput ==
  lDone =>
    /\ Len(lOut) = Len(lDocs)
    /\ \A j \in 1..Len(lDocs) : lOut[j] = NewDoc(lDocs[j], lStage)
    /\ Len(lCk) = Len(lOut)
    /\ \A j \in 1..Len(lCk) : NonIdFields(lCk[j]) = NonIdFields(lOut[j])

C13_Witness ==
  lDone /\ Len(lDocs) = 2 /\ lOut[1] # lOut[2]

====
